---- MODULE Spec2Model ----
(***************************************************************************)
(* Rotating hexagon ball physics with mouse grab/throw                     *)
(* (src/rotating_hexagon_ball.py).                                         *)
(*                                                                         *)
(* Numbers.  The program computes in floating point; the model computes in *)
(* fixed point with round-to-nearest division (RDiv):                      *)
(*   - a time step dt is a whole number of 1/FPS seconds;                  *)
(*   - a position or pointer coordinate is a whole number of 1/PosScale    *)
(*     pixels (PosScale = FPS, so that pos += vel * dt is exact);          *)
(*   - a velocity is a whole number of pixels per second;                  *)
(*   - a unit vector (an edge normal) is scaled by NormScale;              *)
(*   - the angle is a whole number of ANGULAR_SPEED / FPS radians, the     *)
(*     rotation of one 1/FPS step, so a full turn is AngleTurn units.      *)
(*                                                                         *)
(* Objects.  pygame.Vector2 is a mutable object and the program shares     *)
(* one: "ball.vel = drag.throw_vel" makes both fields name the same        *)
(* object, and update(0, 0), += and -= change an object in place.  The     *)
(* two fields are therefore references (1 or 2) into heap, the store of    *)
(* velocity objects.  No other Vector2 field is ever shared between two    *)
(* fields that are later changed in place, so the others are values.       *)
(***************************************************************************)
EXTENDS Integers, Sequences, FiniteSets, TLC

(* ------------------------------ constants ------------------------------ *)

WIDTH == 900
HEIGHT == 700
FPS == 60
GRAVITY == <<0, 900>>
BALL_RADIUS == 18
BALL_MASS == 1
\* RESTITUTION = 0.85 and FRICTION = 0.2, in hundredths.
RESTITUTION == 85
FRICTION == 20
Hundred == 100
HEX_RADIUS == 240
\* ANGULAR_SPEED = math.radians(25): 25 degrees per second.
ANGULAR_SPEED_DEG == 25
\* The grab tolerance "4" of BALL_RADIUS + 4.
GRAB_TOLERANCE == 4
\* 1 / 1e-6, the floor of the time step in the throw velocity.
DT_FLOOR_INV == 1000000

PosScale == FPS
NormScale == 10000
\* One 1/FPS step turns the hexagon by one angle unit.
AngleTurn == (360 * FPS) \div ANGULAR_SPEED_DEG
\* ANGULAR_SPEED in radians per second, scaled by NormScale (pi = 3.1416).
ANGULAR_SPEED == (ANGULAR_SPEED_DEG * 31416) \div 180

Px(p) == <<p[1] * PosScale, p[2] * PosScale>>
HEX_CENTER == Px(<<WIDTH \div 2, HEIGHT \div 2>>)

(* ------------------------------- bounds -------------------------------- *)

\* Number of iterations of the while loop (frames: events, then the update)
\* explored.
MaxTicks == 2
\* Initial angles of the collision-only specification: 0 .. MaxAngle.
MaxAngle == 2

(* ------------------------------- vectors ------------------------------- *)

\* Round-to-nearest division, b > 0.
RDiv(a, b) == (a + (b \div 2)) \div b

Add(u, v) == <<u[1] + v[1], u[2] + v[2]>>
Sub(u, v) == <<u[1] - v[1], u[2] - v[2]>>
Neg(u) == <<-u[1], -u[2]>>
Dot(u, v) == u[1] * v[1] + u[2] * v[2]
LengthSquared(u) == Dot(u, u)
Zero == <<0, 0>>

\* s * u where u is a unit vector scaled by NormScale.
Along(u, s) == <<RDiv(s * u[1], NormScale), RDiv(s * u[2], NormScale)>>
\* u . n where n is a unit vector scaled by NormScale.
Component(u, n) == RDiv(Dot(u, n), NormScale)

RECURSIVE Newton(_, _)
Newton(n, x) ==
    LET y == (x + n \div x) \div 2
    IN  IF y >= x THEN x ELSE Newton(n, y)
\* Integer square root (n >= 0), by Newton's iteration from above.
ISqrt(n) == IF n = 0 THEN 0 ELSE Newton(n, 46341)

\* Vector2.normalize(): the unit vector, scaled by NormScale.
Normalize(u) ==
    LET len == ISqrt(LengthSquared(u))
    IN  <<RDiv(u[1] * NormScale, len), RDiv(u[2] * NormScale, len)>>

(* ------------------------------ geometry ------------------------------- *)

\* NormScale * sin(k * ANGULAR_SPEED / FPS), k = 0 .. AngleTurn - 1.
SinTable == <<
    0, 73, 145, 218, 291, 364, 436, 509, 581, 654, 727, 799, 872, 944, 1016, 1089,
    1161, 1233, 1305, 1377, 1449, 1521, 1593, 1665, 1736, 1808, 1880, 1951, 2022, 2093, 2164, 2235,
    2306, 2377, 2447, 2518, 2588, 2658, 2728, 2798, 2868, 2938, 3007, 3076, 3145, 3214, 3283, 3352,
    3420, 3488, 3557, 3624, 3692, 3760, 3827, 3894, 3961, 4027, 4094, 4160, 4226, 4292, 4358, 4423,
    4488, 4553, 4617, 4682, 4746, 4810, 4874, 4937, 5000, 5063, 5125, 5188, 5250, 5312, 5373, 5434,
    5495, 5556, 5616, 5676, 5736, 5795, 5854, 5913, 5972, 6030, 6088, 6145, 6202, 6259, 6316, 6372,
    6428, 6483, 6539, 6593, 6648, 6702, 6756, 6809, 6862, 6915, 6967, 7019, 7071, 7122, 7173, 7224,
    7274, 7323, 7373, 7422, 7470, 7518, 7566, 7613, 7660, 7707, 7753, 7799, 7844, 7889, 7934, 7978,
    8021, 8064, 8107, 8150, 8192, 8233, 8274, 8315, 8355, 8395, 8434, 8473, 8511, 8549, 8587, 8624,
    8660, 8696, 8732, 8767, 8802, 8836, 8870, 8903, 8936, 8969, 9001, 9032, 9063, 9094, 9124, 9153,
    9182, 9211, 9239, 9266, 9293, 9320, 9346, 9372, 9397, 9422, 9446, 9469, 9492, 9515, 9537, 9559,
    9580, 9600, 9621, 9640, 9659, 9678, 9696, 9713, 9730, 9747, 9763, 9778, 9793, 9808, 9822, 9835,
    9848, 9860, 9872, 9884, 9894, 9905, 9914, 9924, 9932, 9941, 9948, 9955, 9962, 9968, 9974, 9979,
    9983, 9987, 9990, 9993, 9996, 9998, 9999, 10000, 10000, 10000, 9999, 9998, 9996, 9993, 9990, 9987,
    9983, 9979, 9974, 9968, 9962, 9955, 9948, 9941, 9932, 9924, 9914, 9905, 9894, 9884, 9872, 9860,
    9848, 9835, 9822, 9808, 9793, 9778, 9763, 9747, 9730, 9713, 9696, 9678, 9659, 9640, 9621, 9600,
    9580, 9559, 9537, 9515, 9492, 9469, 9446, 9422, 9397, 9372, 9346, 9320, 9293, 9266, 9239, 9211,
    9182, 9153, 9124, 9094, 9063, 9032, 9001, 8969, 8936, 8903, 8870, 8836, 8802, 8767, 8732, 8696,
    8660, 8624, 8587, 8549, 8511, 8473, 8434, 8395, 8355, 8315, 8274, 8233, 8192, 8150, 8107, 8064,
    8021, 7978, 7934, 7889, 7844, 7799, 7753, 7707, 7660, 7613, 7566, 7518, 7470, 7422, 7373, 7323,
    7274, 7224, 7173, 7122, 7071, 7019, 6967, 6915, 6862, 6809, 6756, 6702, 6648, 6593, 6539, 6483,
    6428, 6372, 6316, 6259, 6202, 6145, 6088, 6030, 5972, 5913, 5854, 5795, 5736, 5676, 5616, 5556,
    5495, 5434, 5373, 5312, 5250, 5188, 5125, 5063, 5000, 4937, 4874, 4810, 4746, 4682, 4617, 4553,
    4488, 4423, 4358, 4292, 4226, 4160, 4094, 4027, 3961, 3894, 3827, 3760, 3692, 3624, 3557, 3488,
    3420, 3352, 3283, 3214, 3145, 3076, 3007, 2938, 2868, 2798, 2728, 2658, 2588, 2518, 2447, 2377,
    2306, 2235, 2164, 2093, 2022, 1951, 1880, 1808, 1736, 1665, 1593, 1521, 1449, 1377, 1305, 1233,
    1161, 1089, 1016, 944, 872, 799, 727, 654, 581, 509, 436, 364, 291, 218, 145, 73,
    0, -73, -145, -218, -291, -364, -436, -509, -581, -654, -727, -799, -872, -944, -1016, -1089,
    -1161, -1233, -1305, -1377, -1449, -1521, -1593, -1665, -1736, -1808, -1880, -1951, -2022, -2093, -2164, -2235,
    -2306, -2377, -2447, -2518, -2588, -2658, -2728, -2798, -2868, -2938, -3007, -3076, -3145, -3214, -3283, -3352,
    -3420, -3488, -3557, -3624, -3692, -3760, -3827, -3894, -3961, -4027, -4094, -4160, -4226, -4292, -4358, -4423,
    -4488, -4553, -4617, -4682, -4746, -4810, -4874, -4937, -5000, -5063, -5125, -5188, -5250, -5312, -5373, -5434,
    -5495, -5556, -5616, -5676, -5736, -5795, -5854, -5913, -5972, -6030, -6088, -6145, -6202, -6259, -6316, -6372,
    -6428, -6483, -6539, -6593, -6648, -6702, -6756, -6809, -6862, -6915, -6967, -7019, -7071, -7122, -7173, -7224,
    -7274, -7323, -7373, -7422, -7470, -7518, -7566, -7613, -7660, -7707, -7753, -7799, -7844, -7889, -7934, -7978,
    -8021, -8064, -8107, -8150, -8192, -8233, -8274, -8315, -8355, -8395, -8434, -8473, -8511, -8549, -8587, -8624,
    -8660, -8696, -8732, -8767, -8802, -8836, -8870, -8903, -8936, -8969, -9001, -9032, -9063, -9094, -9124, -9153,
    -9182, -9211, -9239, -9266, -9293, -9320, -9346, -9372, -9397, -9422, -9446, -9469, -9492, -9515, -9537, -9559,
    -9580, -9600, -9621, -9640, -9659, -9678, -9696, -9713, -9730, -9747, -9763, -9778, -9793, -9808, -9822, -9835,
    -9848, -9860, -9872, -9884, -9894, -9905, -9914, -9924, -9932, -9941, -9948, -9955, -9962, -9968, -9974, -9979,
    -9983, -9987, -9990, -9993, -9996, -9998, -9999, -10000, -10000, -10000, -9999, -9998, -9996, -9993, -9990, -9987,
    -9983, -9979, -9974, -9968, -9962, -9955, -9948, -9941, -9932, -9924, -9914, -9905, -9894, -9884, -9872, -9860,
    -9848, -9835, -9822, -9808, -9793, -9778, -9763, -9747, -9730, -9713, -9696, -9678, -9659, -9640, -9621, -9600,
    -9580, -9559, -9537, -9515, -9492, -9469, -9446, -9422, -9397, -9372, -9346, -9320, -9293, -9266, -9239, -9211,
    -9182, -9153, -9124, -9094, -9063, -9032, -9001, -8969, -8936, -8903, -8870, -8836, -8802, -8767, -8732, -8696,
    -8660, -8624, -8587, -8549, -8511, -8473, -8434, -8395, -8355, -8315, -8274, -8233, -8192, -8150, -8107, -8064,
    -8021, -7978, -7934, -7889, -7844, -7799, -7753, -7707, -7660, -7613, -7566, -7518, -7470, -7422, -7373, -7323,
    -7274, -7224, -7173, -7122, -7071, -7019, -6967, -6915, -6862, -6809, -6756, -6702, -6648, -6593, -6539, -6483,
    -6428, -6372, -6316, -6259, -6202, -6145, -6088, -6030, -5972, -5913, -5854, -5795, -5736, -5676, -5616, -5556,
    -5495, -5434, -5373, -5312, -5250, -5188, -5125, -5063, -5000, -4937, -4874, -4810, -4746, -4682, -4617, -4553,
    -4488, -4423, -4358, -4292, -4226, -4160, -4094, -4027, -3961, -3894, -3827, -3760, -3692, -3624, -3557, -3488,
    -3420, -3352, -3283, -3214, -3145, -3076, -3007, -2938, -2868, -2798, -2728, -2658, -2588, -2518, -2447, -2377,
    -2306, -2235, -2164, -2093, -2022, -1951, -1880, -1808, -1736, -1665, -1593, -1521, -1449, -1377, -1305, -1233,
    -1161, -1089, -1016, -944, -872, -799, -727, -654, -581, -509, -436, -364, -291, -218, -145, -73
>>
Sin(k) == SinTable[(k % AngleTurn) + 1]
Cos(k) == Sin(k + AngleTurn \div 4)

hexagon_vertices(center, radius, ang) ==
    [i \in 0..5 |->
        LET theta == ang + i * (AngleTurn \div 6)
        IN  <<center[1] + RDiv(radius * PosScale * Cos(theta), NormScale),
              center[2] + RDiv(radius * PosScale * Sin(theta), NormScale)>>]

(* ------------------------------ collision ------------------------------ *)

\* The perpendicular of edge a -> b, before normalisation.
EdgePerp(a, b) ==
    LET edge == Sub(b, a)
    IN  <<-edge[2], edge[1]>>

\* The unit normal of edge a -> b, turned to point at HEX_CENTER.  The sign
\* test uses 2 * to_center, which has the sign of to_center.
InwardNormal(a, b) ==
    LET normal == Normalize(EdgePerp(a, b))
        to_center2 == Sub(Add(HEX_CENTER, HEX_CENTER), Add(a, b))
    IN  IF Dot(normal, to_center2) < 0 THEN Neg(normal) ELSE normal

\* Signed distance from the ball centre to the edge line, in 1/PosScale px.
SignedDist(pos, a, normal) == Component(Sub(pos, a), normal)

Penetration(pos, a, normal) == BALL_RADIUS * PosScale - SignedDist(pos, a, normal)

\* "if penetration > 0".
Penetrates(penetration) == penetration > 0

\* Velocity of the wall at wall_point, turning about HEX_CENTER at w.
WallVel(wall_point, w) ==
    LET radial == Sub(wall_point, HEX_CENTER)
    IN  <<RDiv(-w * radial[2], NormScale * PosScale),
          RDiv(w * radial[1], NormScale * PosScale)>>

\* Mutant of Approaching: the impulse is applied whatever the sign of vn.
ApproachingAlways(vn) == TRUE

\* "if vn < 0".
Approaching(vn) == vn < 0

\* Mutant of Reflect: the "1 +" is left out.
ReflectDamped(vel, vn, normal) ==
    Sub(vel, Along(normal, RDiv(RESTITUTION * vn, Hundred)))

\* ball.vel -= (1 + RESTITUTION) * vn * normal
Reflect(vel, vn, normal) ==
    Sub(vel, Along(normal, RDiv((Hundred + RESTITUTION) * vn, Hundred)))

\* tangent = (-normal.y, normal.x)
Tangent(normal) == <<-normal[2], normal[1]>>

\* ball.vel += (-vt * FRICTION) * tangent, vt = rel_vel . tangent
Rub(vel, rel_vel, normal) ==
    LET tangent == Tangent(normal)
        vt == Component(rel_vel, tangent)
        friction_impulse == RDiv(-vt * FRICTION, Hundred)
    IN  Add(vel, Along(tangent, friction_impulse))

\* One iteration of the loop over the edges: the ball b against edge i of
\* the hexagon, the wall turning at w.  The result records the iteration.
ResolveEdge(b, vertices, i, w) ==
    LET a0 == vertices[i]
        b0 == vertices[(i + 1) % 6]
        idle == [edge |-> i, skipped |-> TRUE, normal |-> Zero, penetration |-> 0,
                 vn |-> 0, hit |-> FALSE, impulse |-> FALSE,
                 posIn |-> b.pos, velIn |-> b.vel, velRest |-> b.vel,
                 pos |-> b.pos, vel |-> b.vel]
    IN  IF LengthSquared(EdgePerp(a0, b0)) = 0 THEN idle
        ELSE
        LET normal == InwardNormal(a0, b0)
            penetration == Penetration(b.pos, a0, normal)
            miss == [idle EXCEPT !.skipped = FALSE, !.normal = normal,
                                 !.penetration = penetration]
        IN  IF ~Penetrates(penetration) THEN miss
            ELSE
            LET pos1 == Add(b.pos, Along(normal, penetration))
                rel_vel == Sub(b.vel, WallVel(pos1, w))
                vn == Component(rel_vel, normal)
                pushed == [miss EXCEPT !.hit = TRUE, !.vn = vn, !.pos = pos1]
            IN  IF ~Approaching(vn) THEN pushed
                ELSE
                LET vel1 == Reflect(b.vel, vn, normal)
                    vel2 == Rub(vel1, rel_vel, normal)
                IN  [pushed EXCEPT !.impulse = TRUE, !.velRest = vel1, !.vel = vel2]

\* The records of iterations i .. 5, from ball b.
RECURSIVE ResolveFrom(_, _, _, _)
ResolveFrom(b, vertices, i, w) ==
    IF i > 5 THEN <<>>
    ELSE LET r == ResolveEdge(b, vertices, i, w)
         IN  <<r>> \o ResolveFrom([pos |-> r.pos, vel |-> r.vel], vertices, i + 1, w)

\* resolve_collision with the wall's angular speed as a parameter.
ResolveCollisionAt(b, vertices, w) == ResolveFrom(b, vertices, 0, w)

\* resolve_collision: the six iterations in order; the last holds the result.
resolve_collision(b, vertices) == ResolveCollisionAt(b, vertices, ANGULAR_SPEED)

(* -------------------------------- state -------------------------------- *)

VARIABLES
    ball,       \* Ball: pos (a value), vel (a reference into heap)
    drag,       \* DragState: active, grab_offset, last_mouse, throw_vel (a reference)
    heap,       \* the velocity objects, by reference
    angle,      \* main's angle
    running,    \* main's running
    pc,         \* "loop" inside the while loop, "exit" after it
    ticks,      \* loop iterations completed
    hist        \* the last step taken: its input, the state before it, its intermediate values

vars == <<ball, drag, heap, angle, running, pc, ticks, hist>>

\* Positions of MOUSEBUTTONDOWN events, in pixels: the ball's initial centre,
\* a point at distance exactly BALL_RADIUS + GRAB_TOLERANCE from it, a point
\* one pixel farther, and a point well inside the hexagon.
Clicks == {<<450, 230>>, <<472, 230>>, <<473, 230>>, <<300, 300>>}

\* Positions pygame.mouse.get_pos() returns, in pixels: the ball's initial
\* centre, two points well inside the hexagon, and a point far outside it (a
\* pointer whose button is held down is followed beyond the window).
Pointers == {<<450, 230>>, <<300, 300>>, <<310, 300>>, <<1250, -250>>}

\* Time steps clock.tick(FPS) / 1000.0 returns, in 1/FPS seconds: 0 (the
\* first call) and the nominal frame.
Steps == {0, 1}

BallVel == heap[ball.vel]
ThrowVel == heap[drag.throw_vel]

NoTrace == <<>>

\* What hist records of a step.  m is the pointer position read (Zero when
\* none is), dt the time step; the "0" fields are the state before the step;
\* posMid, velMid the ball on entry to resolve_collision; trace its iterations.
Record(kind, m, dt, posMid, velMid, trace) ==
    [kind |-> kind, m |-> m, dt |-> dt,
     active0 |-> drag.active, pos0 |-> ball.pos, vel0 |-> BallVel,
     throw0 |-> ThrowVel, offset0 |-> drag.grab_offset, last0 |-> drag.last_mouse,
     angle0 |-> angle,
     posMid |-> posMid, velMid |-> velMid, trace |-> trace]

Init ==
    /\ ball = [pos |-> <<(WIDTH \div 2) * PosScale, (HEIGHT \div 2 - 120) * PosScale>>, vel |-> 1]
    /\ drag = [active |-> FALSE, grab_offset |-> Zero, last_mouse |-> Zero, throw_vel |-> 2]
    /\ heap = [r \in {1, 2} |-> IF r = 1 THEN <<180, 0>> ELSE Zero]
    /\ angle = 0
    /\ running = TRUE
    /\ pc = "loop"
    /\ ticks = 0
    /\ hist = [kind |-> "init", m |-> Zero, dt |-> 0,
               active0 |-> FALSE, pos0 |-> <<(WIDTH \div 2) * PosScale, (HEIGHT \div 2 - 120) * PosScale>>,
               vel0 |-> <<180, 0>>, throw0 |-> Zero, offset0 |-> Zero, last0 |-> Zero,
               angle0 |-> 0,
               posMid |-> Zero, velMid |-> Zero, trace |-> NoTrace]

(* ------------------------------- events -------------------------------- *)

\* Mutant of InGrabRange: "<" for "<=".
InGrabRangeStrict(mouse, pos) ==
    LET d == Sub(mouse, pos)
        reach == (BALL_RADIUS + GRAB_TOLERANCE) * PosScale
        abs(x) == IF x < 0 THEN -x ELSE x
    IN  /\ abs(d[1]) <= reach
        /\ abs(d[2]) <= reach
        /\ LengthSquared(d) < reach * reach

\* (mouse - ball.pos).length() <= BALL_RADIUS + 4.  A difference beyond the
\* reach in one coordinate is out of range whatever the other is.
InGrabRange(mouse, pos) ==
    LET d == Sub(mouse, pos)
        reach == (BALL_RADIUS + GRAB_TOLERANCE) * PosScale
        abs(x) == IF x < 0 THEN -x ELSE x
    IN  /\ abs(d[1]) <= reach
        /\ abs(d[2]) <= reach
        /\ LengthSquared(d) <= reach * reach

\* drag.grab_offset = ball.pos - mouse
GrabOffset(pos, mouse) == Sub(pos, mouse)

\* pygame.QUIT, or KEYDOWN of K_ESCAPE.
Quit ==
    /\ pc = "loop"
    /\ ticks < MaxTicks
    /\ running
    /\ running' = FALSE
    /\ hist' = Record("quit", Zero, 0, Zero, Zero, NoTrace)
    /\ UNCHANGED <<ball, drag, heap, angle, pc, ticks>>

\* MOUSEBUTTONDOWN of button 1 at p.
MouseButtonDown(p) ==
    LET mouse == Px(p)
    IN  /\ pc = "loop"
        /\ ticks < MaxTicks
        /\ IF InGrabRange(mouse, ball.pos)
           THEN /\ drag' = [drag EXCEPT !.active = TRUE,
                                        !.grab_offset = GrabOffset(ball.pos, mouse),
                                        !.last_mouse = mouse]
                \* drag.throw_vel.update(0, 0): in place
                /\ heap' = [heap EXCEPT ![drag.throw_vel] = Zero]
           ELSE UNCHANGED <<drag, heap>>
        /\ hist' = Record("down", mouse, 0, Zero, Zero, NoTrace)
        /\ UNCHANGED <<ball, angle, running, pc, ticks>>

\* "if drag.active: ball.vel = drag.throw_vel": the object ball.vel names
\* after the test (no copy is made).
ReleasedVel == IF drag.active THEN drag.throw_vel ELSE ball.vel

\* DragState.reset, on the heap: self.throw_vel.update(0, 0) in place.
ResetHeap == [heap EXCEPT ![drag.throw_vel] = Zero]

\* DragState.reset, on the fields: active cleared, grab_offset zeroed.
ResetDrag == [drag EXCEPT !.active = FALSE, !.grab_offset = Zero]

\* MOUSEBUTTONUP of button 1.
MouseButtonUp ==
    /\ pc = "loop"
    /\ ticks < MaxTicks
    /\ ball' = [ball EXCEPT !.vel = ReleasedVel]
    /\ drag' = ResetDrag
    /\ heap' = ResetHeap
    /\ hist' = Record("up", Zero, 0, Zero, Zero, NoTrace)
    /\ UNCHANGED <<angle, running, pc, ticks>>

(* ----------------------------- the update ------------------------------ *)

\* Mutant of HeldPos: the grab offset is dropped.
HeldPosNoOffset(mouse, grab_offset) == mouse

\* ball.pos = mouse + drag.grab_offset
HeldPos(mouse, grab_offset) == Add(mouse, grab_offset)

\* Mutant of HeldThrowVel: the nominal frame time 1 / FPS for dt.
HeldThrowVelNominal(mouse, last_mouse, dt) ==
    LET d == Sub(mouse, last_mouse)
    IN  <<RDiv(d[1] * FPS, PosScale), RDiv(d[2] * FPS, PosScale)>>

\* (mouse - drag.last_mouse) / max(dt, 1e-6), in pixels per second.  Pointer
\* positions are whole pixels, so the differences divide by PosScale exactly.
HeldThrowVel(mouse, last_mouse, dt) ==
    LET d == Sub(mouse, last_mouse)
    IN  IF dt * DT_FLOOR_INV >= FPS
        THEN <<RDiv(d[1] * FPS, PosScale * dt), RDiv(d[2] * FPS, PosScale * dt)>>
        ELSE <<(d[1] \div PosScale) * DT_FLOOR_INV, (d[2] \div PosScale) * DT_FLOOR_INV>>

\* Ball.apply_force: self.vel += (force / BALL_MASS) * dt
apply_force(vel, force, dt) ==
    <<vel[1] + RDiv(force[1] * dt, BALL_MASS * FPS),
      vel[2] + RDiv(force[2] * dt, BALL_MASS * FPS)>>

\* Mutant of integrate: the position step uses the velocity from before the
\* force was applied (explicit Euler).
integrate_explicit(pos, vel, dt) ==
    <<pos[1] + RDiv((vel[1] - RDiv(GRAVITY[1] * dt, BALL_MASS * FPS)) * dt * PosScale, FPS),
      pos[2] + RDiv((vel[2] - RDiv(GRAVITY[2] * dt, BALL_MASS * FPS)) * dt * PosScale, FPS)>>

\* Ball.integrate: self.pos += self.vel * dt
integrate(pos, vel, dt) ==
    <<pos[1] + RDiv(vel[1] * dt * PosScale, FPS),
      pos[2] + RDiv(vel[2] * dt * PosScale, FPS)>>

\* angle += ANGULAR_SPEED * dt
Turn(ang, dt) == ang + dt

\* The object a new Vector2 is stored in: one that ball.vel does not name.
FreshRef == CHOOSE r \in {1, 2} : r # ball.vel

\* The body of the while loop after the events: the interaction update or
\* the integration, the rotation, the collision; then the loop test.
\* p is what pygame.mouse.get_pos() returns, read only while dragging.
Update(dt, p) ==
    LET mouse == Px(p)
        vel0 == BallVel
        velMid == IF drag.active THEN vel0 ELSE apply_force(vel0, GRAVITY, dt)
        posMid == IF drag.active THEN HeldPos(mouse, drag.grab_offset)
                  ELSE integrate(ball.pos, velMid, dt)
        angle1 == Turn(angle, dt)
        trace == resolve_collision([pos |-> posMid, vel |-> velMid],
                                   hexagon_vertices(HEX_CENTER, HEX_RADIUS, angle1))
        out == trace[6]
    IN  /\ pc = "loop"
        /\ ticks < MaxTicks
        /\ ball' = [ball EXCEPT !.pos = out.pos]
        /\ IF drag.active
           THEN /\ drag' = [drag EXCEPT !.throw_vel = FreshRef, !.last_mouse = mouse]
                /\ heap' = [heap EXCEPT
                              ![FreshRef] = HeldThrowVel(mouse, drag.last_mouse, dt),
                              ![ball.vel] = out.vel]
           ELSE /\ drag' = drag
                /\ heap' = [heap EXCEPT ![ball.vel] = out.vel]
        /\ angle' = angle1
        /\ ticks' = ticks + 1
        /\ pc' = IF running THEN "loop" ELSE "exit"
        /\ hist' = Record("tick", IF drag.active THEN mouse ELSE Zero, dt, posMid, velMid, trace)
        /\ UNCHANGED running

Next ==
    \/ Quit
    \/ \E p \in Clicks : MouseButtonDown(p)
    \/ MouseButtonUp
    \/ \E dt \in Steps : \E p \in (IF drag.active THEN Pointers ELSE {<<0, 0>>}) : Update(dt, p)

Spec == Init /\ [][Next]_vars

(* --------------------- collision resolution alone ---------------------- *)

\* Ball centres, in pixels, around the bottom edge (y = 557.8 at angle 0),
\* its two ends and the middle of the hexagon.
CollidePositions ==
    {<<x, y>> : x \in {330, 450, 570}, y \in {350, 545, 552, 560}}

CollideVelocities == {<<0, 100>>, <<50, 100>>, <<-120, 60>>, <<0, -100>>, <<180, 0>>}

InitCollide ==
    /\ \E p \in CollidePositions : ball = [pos |-> Px(p), vel |-> 1]
    /\ \E v \in CollideVelocities : heap = [r \in {1, 2} |-> IF r = 1 THEN v ELSE Zero]
    /\ angle \in 0..MaxAngle
    /\ drag = [active |-> FALSE, grab_offset |-> Zero, last_mouse |-> Zero, throw_vel |-> 2]
    /\ running = TRUE
    /\ pc = "loop"
    /\ ticks = 0
    /\ hist = [kind |-> "init", m |-> Zero, dt |-> 0,
               active0 |-> FALSE, pos0 |-> Zero, vel0 |-> Zero, throw0 |-> Zero,
               offset0 |-> Zero, last0 |-> Zero, angle0 |-> 0,
               posMid |-> Zero, velMid |-> Zero, trace |-> NoTrace]

\* resolve_collision applied once to the ball, the hexagon at the current
\* angle and its wall turning at w (0: a stationary wall).
Collide(w) ==
    LET trace == ResolveCollisionAt([pos |-> ball.pos, vel |-> BallVel],
                                    hexagon_vertices(HEX_CENTER, HEX_RADIUS, angle), w)
    IN  /\ hist.kind = "init"
        /\ ball' = [ball EXCEPT !.pos = trace[6].pos]
        /\ heap' = [heap EXCEPT ![ball.vel] = trace[6].vel]
        /\ hist' = Record(IF w = 0 THEN "still" ELSE "turning", Zero, 0,
                          ball.pos, BallVel, trace)
        /\ UNCHANGED <<drag, angle, running, pc, ticks>>

NextCollide ==
    \/ Collide(0)
    \/ Collide(ANGULAR_SPEED)

SpecCollide == InitCollide /\ [][NextCollide]_vars

(* ------------------------------- claims -------------------------------- *)

Abs(x) == IF x < 0 THEN -x ELSE x

\* Signed distance of pos to edge i of the hexagon at angle ang.
EdgeDistance(pos, ang, i) ==
    LET vertices == hexagon_vertices(HEX_CENTER, HEX_RADIUS, ang)
    IN  SignedDist(pos, vertices[i], InwardNormal(vertices[i], vertices[(i + 1) % 6]))

NoEdgeHit == \A i \in 1..6 : ~hist.trace[i].hit

\* C1 (as claimed).  Throw continuity: right after a MOUSEBUTTONUP handled
\* while dragging, the ball's velocity is the throw velocity last computed.
C1_ThrowContinuity ==
    (hist.kind = "up" /\ hist.active0) => BallVel = hist.throw0

\* C2 (as claimed).  Grab override: an update that ends while dragging leaves
\* the ball at pointer + grab_offset, whatever the pointer position.
C2_GrabOverride ==
    (hist.kind = "tick" /\ drag.active) => ball.pos = Add(hist.m, drag.grab_offset)

\* C2 (amended).  In an update made while dragging, the ball enters collision
\* resolution at pointer + grab_offset with its velocity untouched by
\* gravity, and ends the update there when no edge is penetrated; it ends
\* elsewhere only when collision resolution has pushed it off an edge.
C2_GrabOverrideBeforeCollision ==
    (hist.kind = "tick" /\ drag.active) =>
        /\ hist.posMid = Add(hist.m, drag.grab_offset)
        /\ hist.velMid = hist.vel0
        /\ NoEdgeHit => ball.pos = Add(hist.m, drag.grab_offset)
        /\ ball.pos # Add(hist.m, drag.grab_offset) => \E i \in 1..6 : hist.trace[i].hit

C2_Witness ==
    /\ hist.kind = "tick" /\ drag.active /\ hist.dt = 1
    /\ drag.grab_offset # Zero
    /\ NoEdgeHit
    /\ ball.pos = Add(hist.m, drag.grab_offset)

\* C3 (as claimed).  Containment: after every update the ball's centre is at
\* least BALL_RADIUS (less half a pixel) inside every edge of the hexagon.
C3_Containment ==
    hist.kind = "tick" =>
        \A i \in 0..5 :
            EdgeDistance(ball.pos, angle, i) >= BALL_RADIUS * PosScale - PosScale \div 2

\* C4.  Grab guard: a MOUSEBUTTONDOWN at m while not dragging starts a drag
\* iff m is within BALL_RADIUS + 4 of the ball; the drag starts with
\* grab_offset = ball.pos - m, last_mouse = m, throw_vel = 0; a farther one
\* changes neither the DragState nor the Ball.
C4_GrabGuard ==
    (hist.kind = "down" /\ ~hist.active0) =>
        LET d == Sub(hist.m, hist.pos0)
            reach == (BALL_RADIUS + 4) * PosScale
        IN  /\ drag.active <=> (d[1] * d[1] + d[2] * d[2] <= reach * reach)
            /\ drag.active =>
                /\ drag.grab_offset = Sub(hist.pos0, hist.m)
                /\ drag.last_mouse = hist.m
                /\ ThrowVel = Zero
            /\ ~drag.active =>
                /\ drag.grab_offset = hist.offset0
                /\ drag.last_mouse = hist.last0
                /\ ThrowVel = hist.throw0
                /\ ball.pos = hist.pos0
                /\ BallVel = hist.vel0

C4_Witness ==
    /\ hist.kind = "down" /\ ~hist.active0 /\ drag.active
    /\ LengthSquared(Sub(hist.m, ball.pos)) = (BALL_RADIUS + 4) * PosScale * (BALL_RADIUS + 4) * PosScale
    /\ drag.grab_offset = Sub(ball.pos, hist.m)

\* C5 (as claimed).  grab_offset is constant while dragging: no event or
\* update that starts while dragging and is not the MOUSEBUTTONUP changes it.
C5_GrabOffsetConstant ==
    (hist.kind \in {"down", "tick"} /\ hist.active0) => drag.grab_offset = hist.offset0

\* C6.  Held update: an update made while dragging, with pointer p and time
\* step dt, sets throw_vel = (p - last_mouse) / max(dt, 1e-6) from the
\* last_mouse before it, then last_mouse = p.  Scenario C: the ball grabbed
\* at its centre (300,300), the pointer at (310,300), dt = 1/60: the ball is
\* at (310,300) and throw_vel is (600,0).
C6_HeldUpdate ==
    (hist.kind = "tick" /\ drag.active) =>
        LET d == Sub(hist.m, hist.last0)
        IN  /\ hist.dt > 0 =>
                /\ ThrowVel[1] * hist.dt * PosScale = d[1] * FPS
                /\ ThrowVel[2] * hist.dt * PosScale = d[2] * FPS
            /\ hist.dt = 0 =>
                /\ ThrowVel[1] = (d[1] \div PosScale) * 1000000
                /\ ThrowVel[2] = (d[2] \div PosScale) * 1000000
            /\ drag.last_mouse = hist.m
            /\ ( /\ hist.pos0 = Px(<<300, 300>>) /\ hist.last0 = Px(<<300, 300>>)
                 /\ hist.m = Px(<<310, 300>>) /\ hist.dt = 1 )
               => (ball.pos = Px(<<310, 300>>) /\ ThrowVel = <<600, 0>>)

C6_Witness ==
    /\ hist.kind = "tick" /\ drag.active
    /\ hist.pos0 = Px(<<300, 300>>) /\ hist.last0 = Px(<<300, 300>>)
    /\ hist.throw0 = Zero
    /\ hist.m = Px(<<310, 300>>) /\ hist.dt = 1
    /\ ThrowVel = <<600, 0>>

\* C7.  Restitution: when an iteration of collision resolution against a
\* stationary wall applies an impulse (penetration > 0, vn < 0), the ball's
\* velocity along the edge's inward normal becomes -RESTITUTION * vn (to
\* within 2 pixels per second of rounding), and the friction impulse leaves
\* that component as it is (to within 1).  Scenario B: vn = -100 gives +85.
C7_Restitution ==
    hist.kind = "still" =>
        \A i \in 1..6 :
            LET e == hist.trace[i]
            IN  e.impulse =>
                    /\ e.vn = Component(e.velIn, e.normal)
                    /\ Abs(Component(e.velRest, e.normal) * 100 + RESTITUTION * e.vn) <= 2 * 100
                    /\ Abs(Component(e.vel, e.normal) - Component(e.velRest, e.normal)) <= 1
                    /\ e.vn = -100 => Abs(Component(e.vel, e.normal) - 85) <= 2
                    /\ (e.vn = -100 /\ e.normal = <<0, -NormScale>>) => e.vel[2] = -85

C7_Witness ==
    /\ hist.kind = "still"
    /\ \E i \in 1..6 :
        LET e == hist.trace[i]
        IN  /\ e.impulse /\ e.vn = -100
            /\ Component(e.velIn, Tangent(e.normal)) # 0
            /\ e.vel # e.velRest
            /\ Component(e.vel, e.normal) = 85

\* C8.  Free-motion integration: an update made while not dragging takes the
\* velocity to v + (GRAVITY / BALL_MASS) * dt and then the position to
\* pos + (new velocity) * dt, before collision resolution; dt = 0 changes
\* neither.  Scenario A: from the initial ball, one update with dt = 1/60
\* adds exactly 15 to vel.y and penetrates no edge.
C8_FreeIntegration ==
    (hist.kind = "tick" /\ ~drag.active) =>
        /\ hist.velMid[1] * FPS = hist.vel0[1] * FPS + 0 * hist.dt
        /\ hist.velMid[2] * FPS = hist.vel0[2] * FPS + 900 * hist.dt
        /\ hist.posMid[1] * FPS = hist.pos0[1] * FPS + hist.velMid[1] * hist.dt * PosScale
        /\ hist.posMid[2] * FPS = hist.pos0[2] * FPS + hist.velMid[2] * hist.dt * PosScale
        /\ hist.dt = 0 => (hist.velMid = hist.vel0 /\ hist.posMid = hist.pos0)
        /\ ( /\ hist.pos0 = Px(<<450, 230>>) /\ hist.vel0 = <<180, 0>>
             /\ hist.angle0 = 0 /\ hist.dt = 1 )
           => /\ BallVel[2] = hist.vel0[2] + 15
              /\ NoEdgeHit
              /\ \A i \in 0..5 : EdgeDistance(ball.pos, angle, i) >= BALL_RADIUS * PosScale

C8_Witness ==
    /\ hist.kind = "tick" /\ ~drag.active
    /\ hist.pos0 = Px(<<450, 230>>) /\ hist.vel0 = <<180, 0>>
    /\ hist.angle0 = 0 /\ hist.dt = 1
    /\ BallVel = <<180, 15>>
    /\ ball.pos = <<453 * PosScale, 230 * PosScale + 15>>

\* C9.  Collision gating: an iteration of collision resolution changes the
\* position only when its edge is penetrated (penetration > 0) and the
\* velocity only when, besides, vn < 0; with no edge penetrated the update
\* leaves the ball as it entered collision resolution.
C9_CollisionGating ==
    hist.kind = "tick" =>
        /\ \A i \in 1..6 :
            LET e == hist.trace[i]
            IN  /\ e.posIn = (IF i = 1 THEN hist.posMid ELSE hist.trace[i - 1].pos)
                /\ e.velIn = (IF i = 1 THEN hist.velMid ELSE hist.trace[i - 1].vel)
                /\ e.penetration = BALL_RADIUS * PosScale
                                     - SignedDist(e.posIn, hexagon_vertices(HEX_CENTER, HEX_RADIUS, angle)[i - 1], e.normal)
                /\ e.penetration <= 0 => (e.pos = e.posIn /\ e.vel = e.velIn)
                /\ (e.penetration > 0 /\ e.vn >= 0) => e.vel = e.velIn
                /\ e.pos # e.posIn => e.penetration > 0
                /\ e.vel # e.velIn => (e.penetration > 0 /\ e.vn < 0)
        /\ (\A i \in 1..6 : hist.trace[i].penetration <= 0)
              => (ball.pos = hist.posMid /\ BallVel = hist.velMid)
        /\ ball.pos = hist.trace[6].pos
        /\ BallVel = hist.trace[6].vel

C9_Witness ==
    /\ hist.kind = "tick"
    /\ \E i \in 1..6 :
        LET e == hist.trace[i]
        IN  /\ e.penetration > 0 /\ e.vn > 0
            /\ e.pos # e.posIn /\ e.vel = e.velIn /\ e.velIn # Zero
    /\ \E i \in 1..6 : hist.trace[i].impulse /\ hist.trace[i].vel # hist.trace[i].velIn

\* C10 (as claimed).  A MOUSEBUTTONUP handled while not dragging leaves the
\* ball's position and velocity as they were.
C10_ReleaseWhileFree ==
    (hist.kind = "up" /\ ~hist.active0) => (BallVel = hist.vel0 /\ ball.pos = hist.pos0)

====
